---- MODULE Spec2Model ----
(***************************************************************************)
(* Model of src/convert/text.rs: conversion of a 'text' element and its    *)
(* 'tspan' children into positioned text chunks.                           *)
(*                                                                         *)
(* Option<T> is a sequence of length at most one: None is <<>>, Some(v) is *)
(* <<v>>.  A coordinate is an integer that counts the smallest steps the   *)
(* float comparison can tell apart; fuzzy equality is "at most FuzzyTol    *)
(* steps away", so two coordinates can be fuzzy-equal without being equal. *)
(* A string that is searched (the root's text-decoration) is a sequence of *)
(* characters.  The text of the i-th tspan is i, so every run names the    *)
(* tspan it was made from.                                                 *)
(***************************************************************************)
EXTENDS Integers, Sequences, FiniteSets, TLC

(* ------------------------------ bounds -------------------------------- *)
MaxSpans == 3
MaxDecoSpans == 2

(* ------------------------------ Option -------------------------------- *)
None == <<>>
Some(v) == <<v>>
is_some(o) == o # <<>>
unwrap_or(o, d) == IF o = <<>> THEN d ELSE o[1]

(* --------------------------- fuzzy equality --------------------------- *)
FuzzyTol == 1
Abs(a) == IF a < 0 THEN 0 - a ELSE a
fuzzy_eq(a, b) == Abs(a - b) <= FuzzyTol
fuzzy_ne(a, b) == ~fuzzy_eq(a, b)

(* ------------------------------ strings ------------------------------- *)
S_underline == <<"u","n","d","e","r","l","i","n","e">>
S_overline == <<"o","v","e","r","l","i","n","e">>
S_linethrough == <<"l","i","n","e","t","h","r","o","u","g","h">>
S_line_through == <<"l","i","n","e","-","t","h","r","o","u","g","h">>
S_space == <<" ">>
S_empty == <<>>

contains(text, pat) ==
    \E i \in 1..(Len(text) - Len(pat) + 1) : SubSeq(text, i, i + Len(pat) - 1) = pat

(* ------------------------------ helpers ------------------------------- *)
resolve_pos(list) ==
    IF is_some(list) /\ Len(list[1]) > 0 THEN Some(list[1][1]) ELSE None

conv_text_anchor(attrs) ==
    LET av == unwrap_or(attrs.text_anchor, "start")
    IN  CASE av = "start" -> "Start"
          [] av = "middle" -> "Middle"
          [] av = "end" -> "End"
          [] OTHER -> "Start"

fill_convert(attrs) == IF attrs.fill = "none" THEN None ELSE Some(attrs.fill)
stroke_convert(attrs) == IF attrs.stroke = "none" THEN None ELSE Some(attrs.stroke)

convert_font(attrs) ==
    LET weight == unwrap_or(attrs.font_weight, "normal")
    IN  [weight |-> CASE weight = "normal" -> "Normal"
                      [] weight = "bold" -> "Bold"
                      [] weight = "700" -> "W700"
                      [] OTHER -> "Normal"]

conv_text_decoration(node) ==
    LET text == unwrap_or(node.text_decoration, S_empty)
    IN  [has_underline |-> contains(text, S_underline),
         has_overline |-> contains(text, S_overline),
         has_line_through |-> contains(text, S_linethrough)]

has_attr(attrs, decoration_id) ==
    is_some(attrs.text_decoration) /\ attrs.text_decoration[1] = decoration_id

conv_tspan_decoration(tspan) ==
    [has_underline |-> has_attr(tspan, "underline"),
     has_overline |-> has_attr(tspan, "overline"),
     has_line_through |-> has_attr(tspan, "line-through")]


\* mutant: the root's decoration is ignored
gen_style_SpanOnly(node, tspan, in_tspan, in_text) ==
    IF in_tspan
    THEN Some([fill |-> fill_convert(tspan), stroke |-> stroke_convert(tspan)])
    ELSE None

\* mutant: a span-active slot takes its stroke from the root
gen_style_Merged(node, tspan, in_tspan, in_text) ==
    IF in_tspan
    THEN Some([fill |-> fill_convert(tspan), stroke |-> stroke_convert(node)])
    ELSE IF in_text
         THEN Some([fill |-> fill_convert(node), stroke |-> stroke_convert(node)])
         ELSE None

gen_style(node, tspan, in_tspan, in_text) ==
    IF in_tspan
    THEN Some([fill |-> fill_convert(tspan), stroke |-> stroke_convert(tspan)])
    ELSE IF in_text
         THEN Some([fill |-> fill_convert(node), stroke |-> stroke_convert(node)])
         ELSE None

conv_tspan_decoration2(node, tspan) ==
    LET text_dec == conv_text_decoration(node)
        tspan_dec == conv_tspan_decoration(tspan)
    IN  [underline |-> gen_style(node, tspan, tspan_dec.has_underline, text_dec.has_underline),
         overline |-> gen_style(node, tspan, tspan_dec.has_overline, text_dec.has_overline),
         line_through |-> gen_style(node, tspan, tspan_dec.has_line_through,
                                    text_dec.has_line_through)]

create_text_chunk(x, y, runs, chunk_node) ==
    [x |-> x, y |-> y, anchor |-> conv_text_anchor(chunk_node), children |-> runs]

(* ------------------------------- state -------------------------------- *)
VARIABLES
    text_elem,    \* the root 'text' node (its attributes)
    children,     \* the tspans the loop has read so far, in document order
    chunks,       \* Vec<TextChunk> built so far
    tspans,       \* pending runs
    prev_x,       \* current anchor
    prev_y,
    first_chunk,  \* node the next chunk reads text-anchor from: 0 root, i the i-th tspan
    pc,           \* "loop" | "done"
    ret           \* what convert returns: None until done

vars == <<text_elem, children, chunks, tspans, prev_x, prev_y, first_chunk, pc, ret>>

NodeAt(id) == IF id = 0 THEN text_elem ELSE children[id]

(* --------------------------- input domains ---------------------------- *)
SpanRec(t, x, y, a, d, f, s, w) ==
    [text |-> t, x |-> x, y |-> y, text_anchor |-> a, text_decoration |-> d,
     fill |-> f, stroke |-> s, font_weight |-> w]

RootRec(x, y, a, d, f, s) ==
    [x |-> x, y |-> y, text_anchor |-> a, text_decoration |-> d,
     fill |-> f, stroke |-> s, transform |-> None]

CoordAttrs == {None, Some(<<0>>), Some(<<1>>), Some(<<2>>)}

\* positions vary
PosRoots ==
    {RootRec(x, y, None, None, "red", "none") :
        x \in {None, Some(<<>>), Some(<<1, 2>>)}, y \in {None, Some(<<2>>)}}
PosSpans(i) ==
    {SpanRec(Some(i), x, y, None, None, "blue", "none", None) :
        x \in CoordAttrs, y \in CoordAttrs}
    \cup {SpanRec(None, p[1], p[2], None, None, "blue", "none", None) :
        p \in {<<None, None>>, <<Some(<<2>>), None>>, <<Some(<<0>>), Some(<<2>>)>>}}

\* text-anchor keywords vary
AnchorRoots ==
    {RootRec(None, y, a, None, "red", "none") :
        y \in {None, Some(<<2>>)}, a \in {None, Some("end"), Some("inherit")}}
AnchorSpans(i) ==
    {SpanRec(Some(i), x, y, a, None, "blue", "none", None) :
        x \in {None, Some(<<1>>), Some(<<2>>)}, y \in {None, Some(<<2>>)},
        a \in {None, Some("middle"), Some("end")}}
    \cup {SpanRec(None, x, None, Some("middle"), None, "blue", "none", None) :
        x \in {None, Some(<<2>>)}}

\* decoration and paint vary
DecoStrings ==
    {S_empty, S_underline, S_overline, S_linethrough, S_line_through,
     S_underline \o S_space \o S_overline \o S_space \o S_linethrough}
DecoRoots ==
    {RootRec(None, None, None, d, "red", s) :
        d \in {None} \cup {Some(t) : t \in DecoStrings}, s \in {"none", "black"}}
DecoSpans(i) ==
    {SpanRec(Some(i), None, None, None, d, f, "green", w) :
        d \in {None, Some("underline"), Some("overline"), Some("line-through"), Some("blink")},
        f \in {"none", "blue"}, w \in {None, Some("700")}}
    \cup {SpanRec(None, None, None, None, Some("underline"), "blue", "green", None)}

(* ------------------------------ actions ------------------------------- *)
\* convert_chunks up to the loop
InitWith(root) ==
    /\ text_elem = root
    /\ children = <<>>
    /\ chunks = <<>>
    /\ tspans = <<>>
    /\ prev_x = unwrap_or(resolve_pos(root.x), 0)
    /\ prev_y = unwrap_or(resolve_pos(root.y), 0)
    /\ first_chunk = 0
    /\ pc = "loop"
    /\ ret = None

\* the value a present-or-absent coordinate is compared as
compare_pos(v) == unwrap_or(v, 0)


\* mutant: an unset axis falls back to 0 instead of carrying over
anchor_update_Zero(v, prev) == unwrap_or(v, 0)

\* the anchor after a tspan with an explicit x or y
anchor_update(v, prev) == unwrap_or(v, prev)

\* whether the pending runs are flushed before the tspan's run is appended
flush_needed(pending, tx, ty, px, py) ==
    pending # <<>> /\ (fuzzy_ne(tx, px) \/ fuzzy_ne(ty, py))


\* mutant: the pending runs are not cleared on a flush
pending_after_NoClear(flush, pending, run) == Append(pending, run)

\* tspans.clear() on a flush, then tspans.push(run)
pending_after(flush, pending, run) ==
    Append(IF flush THEN <<>> ELSE pending, run)


\* mutant: the final flush does not look at whether runs are pending
final_flush_Unguarded(chs, pending, px, py, chunk_node) ==
    Append(chs, create_text_chunk(px, py, pending, chunk_node))

\* mutant: no flush after the loop
final_flush_Skipped(chs, pending, px, py, chunk_node) == chs

\* the flush after the loop
final_flush(chs, pending, px, py, chunk_node) ==
    IF pending # <<>>
    THEN Append(chs, create_text_chunk(px, py, pending, chunk_node))
    ELSE chs


\* mutant: nothing to return when no chunk was built
convert_chunks_result_NoneWhenEmpty(chs) == IF chs = <<>> THEN None ELSE Some(chs)

\* what convert_chunks returns
convert_chunks_result(chs) == Some(chs)

\* convert: wraps the chunks in an Element, None if there are none to wrap
convert(root, res) ==
    IF is_some(res)
    THEN Some([id |-> "", children |-> res[1],
               transform |-> unwrap_or(root.transform, "identity")])
    ELSE None

NewRun(tspan) ==
    [fill |-> fill_convert(tspan),
     stroke |-> stroke_convert(tspan),
     font |-> convert_font(tspan),
     decoration |-> conv_tspan_decoration2(text_elem, tspan),
     text |-> tspan.text[1]]


\* mutant: the position is tracked before the text node is looked for
SkipSpan_TracksPosition(tspan) ==
    /\ prev_x' = anchor_update(resolve_pos(tspan.x), prev_x)
    /\ prev_y' = anchor_update(resolve_pos(tspan.y), prev_y)
    /\ first_chunk' = IF tspan.x # <<>> \/ tspan.y # <<>> THEN Len(children) + 1 ELSE first_chunk
    /\ UNCHANGED <<chunks, tspans>>

\* a tspan without a first child: continue
SkipSpan(tspan) ==
    UNCHANGED <<chunks, tspans, prev_x, prev_y, first_chunk>>

\* a tspan with a text node
ProcessSpan(tspan) ==
    LET x == resolve_pos(tspan.x)
        y == resolve_pos(tspan.y)
        moved == is_some(x) \/ is_some(y)
        flush == moved /\ flush_needed(tspans, compare_pos(x), compare_pos(y), prev_x, prev_y)
    IN  /\ chunks' = IF flush
                     THEN Append(chunks, create_text_chunk(prev_x, prev_y, tspans,
                                                          NodeAt(first_chunk)))
                     ELSE chunks
        /\ prev_x' = IF moved THEN anchor_update(x, prev_x) ELSE prev_x
        /\ prev_y' = IF moved THEN anchor_update(y, prev_y) ELSE prev_y
        /\ first_chunk' = IF moved THEN Len(children) + 1 ELSE first_chunk
        /\ tspans' = pending_after(flush, tspans, NewRun(tspan))

\* one iteration of the loop over text_elem.children(), on the next tspan
LoopBody(tspan) ==
    /\ pc = "loop"
    /\ children' = Append(children, tspan)
    /\ IF ~is_some(tspan.text) THEN SkipSpan(tspan) ELSE ProcessSpan(tspan)
    /\ UNCHANGED <<text_elem, pc, ret>>

\* the loop ends: the final flush, and convert wraps the chunks
Finish ==
    /\ pc = "loop"
    /\ chunks' = final_flush(chunks, tspans, prev_x, prev_y, NodeAt(first_chunk))
    /\ ret' = convert(text_elem, convert_chunks_result(chunks'))
    /\ pc' = "done"
    /\ UNCHANGED <<text_elem, children, tspans, prev_x, prev_y, first_chunk>>

(* --------------------------- specifications --------------------------- *)
Init == \E root \in PosRoots : InitWith(root)
Step == Len(children) < MaxSpans /\ \E s \in PosSpans(Len(children) + 1) : LoopBody(s)
Next == Step \/ Finish
Spec == Init /\ [][Next]_vars

InitAnchor == \E root \in AnchorRoots : InitWith(root)
StepAnchor == Len(children) < MaxSpans /\ \E s \in AnchorSpans(Len(children) + 1) : LoopBody(s)
NextAnchor == StepAnchor \/ Finish
SpecAnchor == InitAnchor /\ [][NextAnchor]_vars

InitDeco == \E root \in DecoRoots : InitWith(root)
StepDeco == Len(children) < MaxDecoSpans /\ \E s \in DecoSpans(Len(children) + 1) : LoopBody(s)
NextDeco == StepDeco \/ Finish
SpecDeco == InitDeco /\ [][NextDeco]_vars

(* ------------------------- reading the output ------------------------- *)
Max(S) == CHOOSE m \in S : \A n \in S : n <= m

\* the step just taken ran the loop body on the tspan children'[Len(children')]
IsSpanStep == pc = "loop" /\ pc' = "loop" /\ Len(children') = Len(children) + 1
Read == children'[Len(children')]

\* every set axis of the tspan is fuzzy-equal to the anchor on that axis
SetAxesEqual(s, ax, ay) ==
    /\ is_some(resolve_pos(s.x)) => fuzzy_eq(resolve_pos(s.x)[1], ax)
    /\ is_some(resolve_pos(s.y)) => fuzzy_eq(resolve_pos(s.y)[1], ay)

\* some set axis of the tspan is fuzzy-unequal to the anchor on that axis
SomeSetAxisDiffers(s, ax, ay) ==
    \/ is_some(resolve_pos(s.x)) /\ fuzzy_ne(resolve_pos(s.x)[1], ax)
    \/ is_some(resolve_pos(s.y)) /\ fuzzy_ne(resolve_pos(s.y)[1], ay)

HasText(i) == children[i].text # <<>>
SetsX(i) == children[i].x # <<>> /\ children[i].x[1] # <<>>
SetsY(i) == children[i].y # <<>> /\ children[i].y[1] # <<>>

\* the anchor after the first n tspans, from the input alone: on each axis the
\* last explicit value of a text-bearing tspan, else the root's first value, else 0
AnchorXAfter(n) ==
    LET S == {j \in 1..n : HasText(j) /\ SetsX(j)}
    IN  IF S # {} THEN children[Max(S)].x[1][1]
        ELSE IF text_elem.x # <<>> /\ text_elem.x[1] # <<>> THEN text_elem.x[1][1] ELSE 0
AnchorYAfter(n) ==
    LET S == {j \in 1..n : HasText(j) /\ SetsY(j)}
    IN  IF S # {} THEN children[Max(S)].y[1][1]
        ELSE IF text_elem.y # <<>> /\ text_elem.y[1] # <<>> THEN text_elem.y[1][1] ELSE 0

\* the last text-bearing tspan with an explicit x or y among the first n, else the root
SourceAfter(n) ==
    LET S == {j \in 1..n : HasText(j) /\ (SetsX(j) \/ SetsY(j))}
    IN  IF S # {} THEN Max(S) ELSE 0

FirstOf(c) == c.children[1].text
LastOf(c) == c.children[Len(c.children)].text

\* the runs of a chunk list, concatenated, as the texts (tspan numbers) they carry
RECURSIVE RunTexts(_)
RunTexts(chs) ==
    IF chs = <<>> THEN <<>>
    ELSE [j \in 1..Len(chs[1].children) |-> chs[1].children[j].text] \o RunTexts(Tail(chs))

RECURSIVE TextBearing(_, _)
TextBearing(spans, i) ==
    IF i > Len(spans) THEN <<>>
    ELSE (IF spans[i].text # <<>> THEN <<i>> ELSE <<>>) \o TextBearing(spans, i + 1)

(* ------------------------------- claims ------------------------------- *)
\* C1: a text-bearing tspan processed while runs are pending flushes no chunk when it
\* sets no x/y or every axis it sets is fuzzy-equal to the anchor on that axis (an
\* unset axis counts as the anchor's own value); its run joins the pending runs.
C1_NoFlushWhenSetAxesEqual ==
    [][(IsSpanStep /\ Read.text # <<>> /\ tspans # <<>>
            /\ SetAxesEqual(Read, prev_x, prev_y))
        => (chunks' = chunks /\ Len(tspans') = Len(tspans) + 1
            /\ SubSeq(tspans', 1, Len(tspans)) = tspans
            /\ tspans'[Len(tspans')].text = Read.text[1])]_vars

\* the last explicit value on an axis among the tspans of a chunk's runs, else dflt
LastSetX(c, dflt) ==
    LET S == {j \in 1..Len(c.children) : SetsX(c.children[j].text)}
    IN  IF S = {} THEN dflt ELSE children[c.children[Max(S)].text].x[1][1]
LastSetY(c, dflt) ==
    LET S == {j \in 1..Len(c.children) : SetsY(c.children[j].text)}
    IN  IF S = {} THEN dflt ELSE children[c.children[Max(S)].text].y[1][1]

\* chunk k was opened by a tspan with a set axis fuzzy-unequal to the anchor before it
OpenedByMove(k) ==
    k > 1 /\ SomeSetAxisDiffers(children[FirstOf(chunks[k])], chunks[k - 1].x, chunks[k - 1].y)

\* the flush itself, as C2 states it: one chunk more, at the anchor held before the
\* tspan, with exactly the pending runs; the tspan's run alone is pending afterwards
\* and the anchor takes the explicit value on each set axis
C2_FlushStep ==
    (IsSpanStep /\ Read.text # <<>> /\ tspans # <<>>
        /\ SomeSetAxisDiffers(Read, prev_x, prev_y))
    => /\ Len(chunks') = Len(chunks) + 1
       /\ SubSeq(chunks', 1, Len(chunks)) = chunks
       /\ chunks'[Len(chunks')].x = prev_x
       /\ chunks'[Len(chunks')].y = prev_y
       /\ chunks'[Len(chunks')].children = tspans
       /\ Len(tspans') = 1
       /\ tspans'[1].text = Read.text[1]
       /\ prev_x' = (IF Read.x # <<>> /\ Read.x[1] # <<>> THEN Read.x[1][1] ELSE prev_x)
       /\ prev_y' = (IF Read.y # <<>> /\ Read.y[1] # <<>> THEN Read.y[1][1] ELSE prev_y)

\* C2 as stated: the flush step, and the chunk the tspan opens is emitted at the
\* anchor as that tspan updated it (explicit value on each axis it sets, the
\* carried-over value on the other).
C2_Original ==
    [][C2_FlushStep
       /\ (\A k \in 1..Len(chunks) : OpenedByMove(k) =>
             /\ chunks[k].x = (IF SetsX(FirstOf(chunks[k]))
                               THEN children[FirstOf(chunks[k])].x[1][1] ELSE chunks[k - 1].x)
             /\ chunks[k].y = (IF SetsY(FirstOf(chunks[k]))
                               THEN children[FirstOf(chunks[k])].y[1][1]
                               ELSE chunks[k - 1].y))']_vars

\* C2 (amended): the flush step, and the chunk the tspan opens is emitted at the
\* anchor held when that chunk is flushed: on each axis the explicit value of the last
\* tspan of the chunk that sets the axis, else the value carried over from the chunk
\* before it.
C2_FlushThenEmitAtCurrentAnchor ==
    [][C2_FlushStep
       /\ (\A k \in 1..Len(chunks) : OpenedByMove(k) =>
             /\ chunks[k].x = LastSetX(chunks[k], chunks[k - 1].x)
             /\ chunks[k].y = LastSetY(chunks[k], chunks[k - 1].y)
             /\ FirstOf(chunks[k]) > LastOf(chunks[k - 1]))']_vars

\* a chunk opened by a move has been emitted after a later tspan joined it with an
\* explicit x that is not the x the chunk was opened at
C2_Witness ==
    \E k \in 1..Len(chunks) :
        /\ OpenedByMove(k)
        /\ SetsX(FirstOf(chunks[k]))
        /\ Len(chunks[k].children) > 1
        /\ chunks[k].x # children[FirstOf(chunks[k])].x[1][1]

\* C3 as stated: every emitted chunk's (x, y) is the anchor in effect when the chunk
\* was opened, i.e. after the tspan of its first run; tspans that join later do not
\* change it.
C3_Original ==
    \A k \in 1..Len(chunks) :
        /\ chunks[k].x = AnchorXAfter(FirstOf(chunks[k]))
        /\ chunks[k].y = AnchorYAfter(FirstOf(chunks[k]))

\* C3 (amended): every emitted chunk's (x, y) is the anchor in effect when the chunk
\* is flushed, i.e. after the tspan of its last run: on each axis the last explicit
\* value of a text-bearing tspan up to there, else the root's first value, else 0; it
\* is fuzzy-equal, axis by axis, to the anchor after each tspan that joined the chunk
\* right before.
C3_ChunkAtAnchorWhenFlushed ==
    \A k \in 1..Len(chunks) :
        /\ chunks[k].x = AnchorXAfter(LastOf(chunks[k]))
        /\ chunks[k].y = AnchorYAfter(LastOf(chunks[k]))
        /\ \A j \in 2..Len(chunks[k].children) :
              /\ fuzzy_eq(AnchorXAfter(chunks[k].children[j].text),
                          AnchorXAfter(chunks[k].children[j - 1].text))
              /\ fuzzy_eq(AnchorYAfter(chunks[k].children[j].text),
                          AnchorYAfter(chunks[k].children[j - 1].text))

\* a chunk is emitted at a position that differs from its opening anchor by more than
\* the tolerance: two tspans joined it, each a fuzzy-equal step further
C3_Witness ==
    \E k \in 1..Len(chunks) :
        /\ Len(chunks[k].children) = 3
        /\ fuzzy_ne(chunks[k].x, AnchorXAfter(FirstOf(chunks[k])))

\* what a node's own fill and stroke resolve to
Paint(node) ==
    [fill |-> IF node.fill = "none" THEN <<>> ELSE <<node.fill>>,
     stroke |-> IF node.stroke = "none" THEN <<>> ELSE <<node.stroke>>]

Kinds == {"underline", "overline", "line-through"}
Slot(deco, kind) ==
    CASE kind = "underline" -> deco.underline
      [] kind = "overline" -> deco.overline
      [] kind = "line-through" -> deco.line_through
RootToken(kind) ==
    CASE kind = "underline" -> S_underline
      [] kind = "overline" -> S_overline
      [] kind = "line-through" -> S_linethrough
RootString == IF text_elem.text_decoration = <<>> THEN <<>> ELSE text_elem.text_decoration[1]

\* the runs made so far, pending or in a chunk
Runs == {tspans[j] : j \in 1..Len(tspans)}
            \cup UNION {{chunks[k].children[j] : j \in 1..Len(chunks[k].children)} :
                            k \in 1..Len(chunks)}

UnderlineUnderOverline(run) ==
    /\ text_elem.text_decoration = <<S_overline>>
    /\ children[run.text].text_decoration = <<"underline">>

\* C4 as stated: a tspan with keyword underline under a root whose string is
\* "overline" gets only the underline slot, styled from the tspan's own paint.
C4_Original ==
    \A run \in Runs : UnderlineUnderOverline(run) =>
        /\ run.decoration.underline = <<Paint(children[run.text])>>
        /\ run.decoration.overline = <<>>
        /\ run.decoration.line_through = <<>>

\* C4 (amended): such a tspan gets the underline slot styled from its own paint and
\* also the overline slot, styled from the root's paint; only line-through is absent.
C4_UnderlineFromSpanOverlineFromRoot ==
    \A run \in Runs : UnderlineUnderOverline(run) =>
        /\ run.decoration.underline = <<Paint(children[run.text])>>
        /\ run.decoration.overline = <<Paint(text_elem)>>
        /\ run.decoration.line_through = <<>>

C4_Witness ==
    \E run \in Runs :
        /\ UnderlineUnderOverline(run)
        /\ children[run.text].fill = "blue"
        /\ text_elem.stroke = "black"
        /\ pc = "done"

\* C5: each decoration slot has exactly one source: the tspan's own fill and stroke if
\* the tspan's keyword is the kind; else the root's own fill and stroke if the root's
\* string contains the kind's token; else the slot is absent.
C5_OneSourcePerKind ==
    \A run \in Runs : \A kind \in Kinds :
        Slot(run.decoration, kind) =
            IF children[run.text].text_decoration = <<kind>>
            THEN <<Paint(children[run.text])>>
            ELSE IF contains(RootString, RootToken(kind))
                 THEN <<Paint(text_elem)>>
                 ELSE <<>>

\* one run with a span-styled slot, a root-styled slot, and the two paints different
\* in fill and in stroke
C5_Witness ==
    \E run \in Runs :
        /\ children[run.text].text_decoration = <<"overline">>
        /\ run.decoration.overline = <<[fill |-> <<"blue">>, stroke |-> <<"green">>]>>
        /\ run.decoration.underline = <<[fill |-> <<"red">>, stroke |-> <<"black">>]>>
        /\ run.decoration.line_through = <<[fill |-> <<"red">>, stroke |-> <<"black">>]>>

AnchorKeyword(node) ==
    IF node.text_anchor = <<"middle">> THEN "Middle"
    ELSE IF node.text_anchor = <<"end">> THEN "End" ELSE "Start"

\* the part of C6 about where the text-anchor comes from: first_chunk is the last
\* text-bearing tspan with an explicit x or y read so far, else the root, and every
\* chunk's text-anchor is that of the node first_chunk named when the chunk was flushed
AnchorFromChunkSource ==
    /\ first_chunk = SourceAfter(Len(children))
    /\ \A k \in 1..Len(chunks) :
          chunks[k].anchor = AnchorKeyword(NodeAt(SourceAfter(LastOf(chunks[k]))))

\* C6: every chunk's text-anchor is resolved from chunk_source as it stands at the
\* flush (the root, then the last text-bearing tspan with an explicit x or y); a tspan
\* whose explicit coordinates are fuzzy-equal to the anchor opens no new chunk and
\* still becomes chunk_source; a tspan without coordinates never changes chunk_source.
C6_AnchorFromSourceNoChunkOnEqual ==
    [][/\ AnchorFromChunkSource'
       /\ (IsSpanStep /\ Read.text # <<>> /\ (Read.x # <<>> \/ Read.y # <<>>)
              /\ SetAxesEqual(Read, prev_x, prev_y))
          => (chunks' = chunks /\ first_chunk' = Len(children'))]_vars

\* C7: a tspan without a text node changes nothing, whatever x and y it carries, and
\* no run is made from it.
C7_TextlessSpanIsInert ==
    [][(IsSpanStep /\ Read.text = <<>>)
        => /\ UNCHANGED <<prev_x, prev_y, first_chunk, tspans, chunks>>
           /\ (\A run \in Runs : run.text # Len(children))']_vars

\* a textless tspan with an x far from the anchor was read while runs were pending
\* and a chunk had been emitted
C7_Witness ==
    /\ pc = "loop"
    /\ children # <<>>
    /\ ~HasText(Len(children))
    /\ SetsX(Len(children))
    /\ fuzzy_ne(children[Len(children)].x[1][1], prev_x)
    /\ tspans # <<>>
    /\ chunks # <<>>

C9_ChunksNonEmptyAndDisjoint ==
    /\ \A k \in 1..Len(chunks) : chunks[k].children # <<>>
    /\ \A k \in 1..Len(chunks) : \A j \in 1..Len(chunks[k].children) :
          /\ \A k2 \in 1..Len(chunks) : \A j2 \in 1..Len(chunks[k2].children) :
                chunks[k].children[j].text = chunks[k2].children[j2].text
                    => (k = k2 /\ j = j2)
          /\ pc = "loop" =>
                \A j2 \in 1..Len(tspans) : tspans[j2].text # chunks[k].children[j].text

\* a mid-loop flush and the final flush have both pushed a chunk
C9_Witness ==
    /\ pc = "done"
    /\ Len(chunks) = 2
    /\ Len(chunks[1].children) = 2
    /\ chunks[2].children = tspans

\* C10: the runs of the chunks, in chunk order, are one run per text-bearing tspan in
\* document order; while the loop runs the pending runs complete them, and when it
\* has ended every run is in a chunk of the returned Element.
C10_RunsAreTextBearingSpansInOrder ==
    /\ pc = "loop" =>
          RunTexts(chunks) \o [j \in 1..Len(tspans) |-> tspans[j].text]
              = TextBearing(children, 1)
    /\ pc = "done" => RunTexts(ret[1].children) = TextBearing(children, 1)

C10_Witness ==
    /\ pc = "done"
    /\ Len(children) = 3
    /\ ~HasText(2)
    /\ Len(chunks) = 2
    /\ RunTexts(chunks) = <<1, 3>>

====
